---- MODULE Spec2Model ----
(***************************************************************************)
(* Event Service (routers/events.py): the Events and Tasks tables of the   *)
(* relational store, the foreground handlers get_events, get_event,        *)
(* create_event, create_event_async, get_task_status, update_event and     *)
(* delete_event, and the background worker process_event_async.            *)
(*                                                                         *)
(* Every handler opens its own connection and commits after each mutating  *)
(* statement, so each SQL statement (with its commit) is one atomic step   *)
(* and the steps of concurrent requests interleave freely.                 *)
(*                                                                         *)
(* Request bodies: routers/events.py reads start_time, end_time and        *)
(* capacity from EventCreate / EventUpdate, while model.py declares these  *)
(* schemas with event_time only.  The request records below carry the      *)
(* attributes the handlers read: the Event data model of the               *)
(* specification (title stands for the non-boundary columns).              *)
(*                                                                         *)
(* A store statement of the worker either takes effect or raises without   *)
(* effect (the `ok` parameter of its steps).  The worker is a daemon       *)
(* thread: it can be killed at any statement (process_crash).              *)
(*                                                                         *)
(* Optional values (SQL NULL, Python None, an absent header) are sequences *)
(* of length 0 or 1.  Datetimes are the integers 0..MaxTime.               *)
(***************************************************************************)
EXTENDS Integers, Sequences, FiniteSets, TLC

\* ---------------------------------------------------------------- bounds
MaxTime == 2
MaxEvents == 2
MaxTasks == 2
MaxRequests == 3
\* list requests: rows in the table, largest skip, largest limit
MaxRows == 26
MaxSkip == 21
MaxLimit == 10

Times == 0..MaxTime
Users == {1, 2}
Titles == {"a", "b"}
\* a create sends the first title, an update may set the second
CreateTitles == {"a"}
UpdateTitles == {"b"}
EventIds == 1..MaxEvents
TaskIds == 1..MaxTasks
Updaters == {1, 2}

None == <<>>
Some(x) == <<x>>
IsSet(o) == Len(o) > 0
Val(o) == o[1]

VARIABLES
    Events,       \* table Events: event_id -> row
    lastrowid,    \* AUTO_INCREMENT counter of Events
    Tasks,        \* table Tasks: task_id -> row
    worker,       \* task_id -> the thread running process_event_async
    upd,          \* in-flight update_event requests: position and locals
    del,          \* in-flight delete_event request
    crt,          \* in-flight create_event request
    poll,         \* in-flight get_task_status request
    resp,         \* the request and response of the handler that returned last
    nreq          \* number of foreground requests accepted so far

vars == <<Events, lastrowid, Tasks, worker, upd, del, crt, poll, resp, nreq>>

\* ------------------------------------------------------- request schemas
\* Attributes of the request body that update_event may find in update_dict.
EventUpdateFields == {"title", "start_time", "end_time"}

EventCreate == [title : CreateTitles, start_time : Times, end_time : Times, created_by : Users]

Opt(S) == {None} \cup {Some(x) : x \in S}

\* update.dict(exclude_unset=True): exactly the fields the client set
update_dict(title, start_time, end_time) ==
    [k \in {f \in EventUpdateFields :
                \/ f = "title" /\ IsSet(title)
                \/ f = "start_time" /\ IsSet(start_time)
                \/ f = "end_time" /\ IsSet(end_time)} |->
        CASE k = "title" -> Val(title)
          [] k = "start_time" -> Val(start_time)
          [] k = "end_time" -> Val(end_time)]

\* EventUpdate with created_by among the fields a client can set
EventUpdate_WithCreator ==
    {update_dict(t, s, e) @@ ("created_by" :> c) :
        t \in Opt(UpdateTitles), s \in Opt(Times), e \in Opt(Times), c \in Users}

EventUpdate ==
    {update_dict(t, s, e) : t \in Opt(UpdateTitles), s \in Opt(Times), e \in Opt(Times)}

\* ------------------------------------------------------------ the store
\* InsertedRow with start_time and end_time bound to each other's column
InsertedRow_Swapped(id, ev, user_id) ==
    [event_id |-> id, title |-> ev.title, start_time |-> ev.end_time,
     end_time |-> ev.start_time, created_by |-> user_id]

\* INSERT INTO Events (...) VALUES (...): the row an insert of `ev` creates
InsertedRow(id, ev, user_id) ==
    [event_id |-> id, title |-> ev.title, start_time |-> ev.start_time,
     end_time |-> ev.end_time, created_by |-> user_id]

\* SELECT ... FROM Events WHERE event_id = %s, fetchone(): the row as a dict
\* whose DATETIME columns are datetime objects, or None
SelectEvent(id) ==
    IF id \in DOMAIN Events
    THEN Some([event_id |-> id, title |-> Events[id].title,
               start_time |-> <<"datetime", Events[id].start_time>>,
               end_time |-> <<"datetime", Events[id].end_time>>,
               created_by |-> Events[id].created_by])
    ELSE None

\* UPDATE Events SET k = v, ... WHERE event_id = %s
UpdatedRow(row, d) == [k \in DOMAIN row |-> IF k \in DOMAIN d THEN d[k] ELSE row[k]]

\* ---------------------------------------------------------- fingerprints
DateKeys == {"start_time", "end_time"}

\* datetime.isoformat(): 'YYYY-MM-DDTHH:MM:SS'
isoformat(dt) == <<"iso", dt[2]>>

\* the handlers' "convert datetime to string" block
Normalise(event) ==
    [k \in DOMAIN event |->
        IF k \in DateKeys /\ event[k][1] = "datetime" THEN isoformat(event[k]) ELSE event[k]]

\* json.dumps(data, sort_keys=True, default=str): a datetime left in the dict
\* is written by str(), 'YYYY-MM-DD HH:MM:SS'
json_dumps(data) ==
    [k \in DOMAIN data |->
        IF k \in DateKeys /\ data[k][1] = "datetime" THEN <<"str", data[k][2]>> ELSE data[k]]

generate_etag(data) == <<"md5", json_dumps(data)>>

\* get_event_interests: no handler of this service writes EventInterests
get_event_interests(event_id) == <<>>

add_links(event_id) == [self |-> event_id, interests |-> event_id, creator |-> event_id]

WithInterests(event) ==
    [k \in DOMAIN event \cup {"interests"} |->
        IF k = "interests" THEN get_event_interests(event.event_id) ELSE event[k]]

WithLinks(event) ==
    [k \in DOMAIN event \cup {"links"} |->
        IF k = "links" THEN add_links(event.event_id) ELSE event[k]]

\* the validator get_event puts in its ETag header (lines 325-338)
GetETag(event) == generate_etag(Normalise(WithInterests(event)))

\* the fingerprint update_event recomputes for If-Match (lines 636-639)
ExistingETag(event) == generate_etag(WithInterests(event))

\* the validator update_event returns (lines 739-756)
UpdatedETag(event) == generate_etag(Normalise(WithLinks(WithInterests(event))))

\* A header value: <<quote, content>>; '' is <<"", None>>
Quoted(etag) == <<"q", Some(etag)>>
EmptyHeader == <<"", None>>
\* `if if_match:` - None and '' are falsy
Truthy(h) == IsSet(h) /\ Val(h) # EmptyHeader
\* if_match.strip('"')
strip(h) == h[2]

\* If-Match values a client may send with an update of event_id: no header,
\* an empty one, or a quoted validator - the tag get_event publishes for the
\* current row, the fingerprint update_event recomputes for it, or the
\* fingerprint of the row under another title (a stale one)
IfMatchHeaders(event_id) ==
    {None, Some(EmptyHeader)} \cup
    {Some(Quoted(e)) : e \in UNION {
        {GetETag(r), ExistingETag(r)} \cup
        {ExistingETag([r EXCEPT !.title = t]) : t \in Titles} :
            r \in {Val(SelectEvent(id)) : id \in DOMAIN Events \cap {event_id}}}}

\* ------------------------------------------------------- initial state
IdleUpdate ==
    [pc |-> "idle", event_id |-> 1, created_by |-> 1, if_match |-> None,
     update |-> update_dict(None, None, None), existing |-> None, fresh |-> None]

IdleDelete == [pc |-> "idle", event_id |-> 1, created_by |-> 1, existing |-> None]

IdleCreate == [pc |-> "idle", event_id |-> 0, event |-> None]

IdlePoll == [pc |-> "idle", task_id |-> 1, known |-> FALSE, after |-> FALSE]

Init ==
    /\ Events = <<>>
    /\ lastrowid = 0
    /\ Tasks = <<>>
    /\ worker = <<>>
    /\ upd = [u \in Updaters |-> IdleUpdate]
    /\ del = IdleDelete
    /\ crt = IdleCreate
    /\ poll = IdlePoll
    /\ resp = [op |-> "none"]
    /\ nreq = 0

Accept == nreq < MaxRequests /\ nreq' = nreq + 1

\* -------------------------------------------------------------- get_event
\* If-None-Match values a client may send with a get of event_id: no
\* header, an empty one, the validator get_event publishes for the current
\* row, quoted or bare, or the one of the row under another title
IfNoneMatchHeaders(event_id) ==
    {None, Some(EmptyHeader)} \cup
    {Some(h) : h \in UNION {
        {<<"", Some(GetETag(r))>>} \cup
        {Quoted(GetETag([r EXCEPT !.title = t])) : t \in Titles} :
            r \in {Val(SelectEvent(id)) : id \in DOMAIN Events \cap {event_id}}}}

\* NotModified with the comparison of line 341 left out
NotModified_Never(if_none_match, etag) == FALSE

\* line 341: if if_none_match and if_none_match.strip('"') == etag
NotModified(if_none_match, etag) ==
    Truthy(if_none_match) /\ strip(Val(if_none_match)) = Some(etag)

GetResponse(event_id, if_none_match, outcome, etag, body) ==
    [op |-> "get_event", event_id |-> event_id, if_none_match |-> if_none_match,
     outcome |-> outcome, etag |-> etag, body |-> body]

\* lines 297-347: SELECT, 404, the ETag, 304 or the representation with links
get_event(event_id, if_none_match) ==
    /\ Accept
    /\ LET event == SelectEvent(event_id)
           etag == GetETag(Val(event))
       IN  resp' =
               IF ~IsSet(event)
               THEN GetResponse(event_id, if_none_match, "NotFound", None, None)
               ELSE IF NotModified(if_none_match, etag)
               THEN GetResponse(event_id, if_none_match, "NotModified", Some(etag), None)
               ELSE GetResponse(event_id, if_none_match, "OK", Some(etag),
                                Some(WithLinks(Normalise(WithInterests(Val(event))))))
    /\ UNCHANGED <<Events, lastrowid, Tasks, worker, upd, del, crt, poll>>

\* ------------------------------------------------------------- get_events
\* lines 213-235: SELECT COUNT(*) of a request that sets no filter
\* (where_sql is "1=1")
CountEvents == Cardinality(DOMAIN Events)

Max(a, b) == IF a >= b THEN a ELSE b
Min(a, b) == IF a <= b THEN a ELSE b

\* has_more with `<=` where line 286 has `<`
has_more_Inclusive(skip, limit, total) == skip + limit <= total

\* line 286
has_more(skip, limit, total) == skip + limit < total

\* lines 287-293: the hrefs, each written as the skip it carries
ListLinks(skip, limit, total) ==
    [self |-> skip,
     first |-> 0,
     last |-> Max(0, ((total - 1) \div limit) * limit),
     next |-> IF skip + limit < total THEN Some(skip + limit) ELSE None,
     prev |-> IF skip > 0 THEN Some(Max(0, skip - limit)) ELSE None]

\* lines 277-294: the body; items is the number of rows LIMIT/OFFSET returns
ListResponse(skip, limit, total) ==
    [op |-> "get_events", items |-> Max(0, Min(limit, total - skip)),
     total |-> total, skip |-> skip, limit |-> limit,
     has_more |-> has_more(skip, limit, total),
     links |-> ListLinks(skip, limit, total)]

\* lines 189-294: COUNT(*), the page, the response; skip >= 0 and
\* 1 <= limit <= 100 are enforced by the Query declarations
get_events(skip, limit) ==
    /\ Accept
    /\ resp' = ListResponse(skip, limit, CountEvents)
    /\ UNCHANGED <<Events, lastrowid, Tasks, worker, upd, del, crt, poll>>

\* ----------------------------------------------------------- create_event
CreateResponse(event_id, outcome) ==
    [op |-> "create_event", event_id |-> event_id, outcome |-> outcome]

\* lines 364-390: validation, INSERT, commit, lastrowid
create_event_insert(event) ==
    /\ crt.pc = "idle"
    /\ Accept
    /\ IF event.end_time <= event.start_time
       THEN /\ resp' = CreateResponse(0, "InvalidInput")
            /\ UNCHANGED <<Events, lastrowid, crt>>
       ELSE /\ lastrowid < MaxEvents
            /\ lastrowid' = lastrowid + 1
            /\ Events' = Events @@
                   (lastrowid' :> InsertedRow(lastrowid', event, event.created_by))
            /\ crt' = [pc |-> "inserted", event_id |-> lastrowid', event |-> Some(event)]
            /\ UNCHANGED resp
    /\ UNCHANGED <<Tasks, worker, upd, del, poll>>

\* lines 392-425: read the created row back, build the response
create_event_readback ==
    /\ crt.pc = "inserted"
    /\ resp' = CreateResponse(crt.event_id,
                   IF IsSet(SelectEvent(crt.event_id)) THEN "Created" ELSE "Internal")
    /\ crt' = IdleCreate
    /\ UNCHANGED <<Events, lastrowid, Tasks, worker, upd, del, poll, nreq>>

\* ----------------------------------------------------------- update_event
\* The record of an update in flight holds its position, the request
\* (event_id, If-Match header, body) and the locals the rest of the handler
\* still reads: existing_event and created_by until the guards of lines
\* 622-642 are done.

\* the request thread that serves the next update
FreeUpdater == IF upd[1].pc = "idle" THEN 1 ELSE 2

UpdateResponse(req, outcome, wrote, etag) ==
    [op |-> "update_event", event_id |-> req.event_id, created_by |-> req.created_by,
     if_match |-> req.if_match, update |-> req.update, existing |-> req.existing,
     fresh |-> req.fresh, outcome |-> outcome, wrote |-> wrote, etag |-> etag]

\* UpdateAuthorised without the creator comparison of lines 627-633
UpdateAuthorised_AnyCaller(existing_event, created_by) ==
    IF ~IsSet(existing_event) THEN "NotFound" ELSE "none"

\* lines 622-633: the row must exist and be the caller's
UpdateAuthorised(existing_event, created_by) ==
    IF ~IsSet(existing_event) THEN "NotFound"
    ELSE IF Val(existing_event).created_by # created_by THEN "Forbidden"
    ELSE "none"

\* UpdatePrecondition with the If-Match header read but never compared
UpdatePrecondition_Ignored(existing_event, if_match) == "none"

\* lines 635-642: If-Match against the fingerprint of the row just read
UpdatePrecondition(existing_event, if_match) ==
    IF /\ Truthy(if_match)
       /\ strip(Val(if_match)) # Some(ExistingETag(Val(existing_event)))
    THEN "PreconditionFailed"
    ELSE "none"

\* lines 611-642: read the row, 404, 403, If-Match revalidation
update_event_read(event_id, update, created_by, if_match) ==
    /\ upd[FreeUpdater].pc = "idle"
    /\ Accept
    /\ LET u == FreeUpdater
           existing_event == SelectEvent(event_id)
           req == [IdleUpdate EXCEPT !.pc = "read", !.event_id = event_id,
                                     !.created_by = created_by, !.if_match = if_match,
                                     !.existing = existing_event]
           auth == UpdateAuthorised(existing_event, created_by)
           out == IF auth # "none" THEN auth
                  ELSE UpdatePrecondition(existing_event, if_match)
       IN  IF out = "none"
           THEN upd' = [upd EXCEPT ![u] = [req EXCEPT !.update = update]] /\ UNCHANGED resp
           ELSE resp' = UpdateResponse(req, out, FALSE, None) /\ UNCHANGED upd
    /\ UNCHANGED <<Events, lastrowid, Tasks, worker, del, crt, poll>>

\* lines 650-658: both boundaries supplied
BothInvalid(d) ==
    /\ "start_time" \in DOMAIN d /\ "end_time" \in DOMAIN d
    /\ d.end_time <= d.start_time

\* lines 660-683: only start_time supplied, compared with the stored end_time
StartInvalid(d, existing) ==
    /\ "start_time" \in DOMAIN d /\ "end_time" \notin DOMAIN d
    /\ IsSet(existing)
    /\ Val(existing).end_time[2] <= d.start_time

\* EndInvalid with `<` where line 702 has `<=`
EndInvalid_Strict(d, existing) ==
    /\ "end_time" \in DOMAIN d /\ "start_time" \notin DOMAIN d
    /\ IsSet(existing)
    /\ d.end_time < Val(existing).start_time[2]

\* lines 685-708: only end_time supplied, compared with the stored start_time
EndInvalid(d, existing) ==
    /\ "end_time" \in DOMAIN d /\ "start_time" \notin DOMAIN d
    /\ IsSet(existing)
    /\ d.end_time <= Val(existing).start_time[2]

\* lines 661, 686: exactly one boundary supplied - the other is selected
OneBoundary(d) == ("start_time" \in DOMAIN d) # ("end_time" \in DOMAIN d)

\* lines 644-717: the guards before the write
update_event_validate(u) ==
    /\ upd[u].pc = "read"
    /\ LET d == upd[u].update
           existing == IF OneBoundary(d) THEN SelectEvent(upd[u].event_id) ELSE None
           bad == \/ BothInvalid(d)
                  \/ StartInvalid(d, existing)
                  \/ EndInvalid(d, existing)
                  \/ DOMAIN d = {}
           req == [IdleUpdate EXCEPT !.pc = "validated", !.event_id = upd[u].event_id,
                                     !.if_match = upd[u].if_match,
                                     !.update = d, !.fresh = existing]
       IN  IF bad
           THEN /\ resp' = UpdateResponse(req, "InvalidInput", FALSE, None)
                /\ upd' = [upd EXCEPT ![u] = IdleUpdate]
           ELSE /\ upd' = [upd EXCEPT ![u] = req]
                /\ UNCHANGED resp
    /\ UNCHANGED <<Events, lastrowid, Tasks, worker, del, crt, poll, nreq>>

\* update_event_write as a conditional update keyed on the validator: the
\* fingerprint is recomputed with the write, a stale If-Match is answered 412
update_event_write_Conditional(u) ==
    /\ upd[u].pc = "validated"
    /\ IF \/ upd[u].event_id \notin DOMAIN Events
          \/ UpdatePrecondition(SelectEvent(upd[u].event_id), upd[u].if_match) = "none"
       THEN /\ Events' = [id \in DOMAIN Events |->
                             IF id = upd[u].event_id
                             THEN UpdatedRow(Events[id], upd[u].update) ELSE Events[id]]
            /\ upd' = [upd EXCEPT ![u].pc = "written"]
            /\ UNCHANGED resp
       ELSE /\ resp' = UpdateResponse(upd[u], "PreconditionFailed", FALSE, None)
            /\ upd' = [upd EXCEPT ![u] = IdleUpdate]
            /\ UNCHANGED Events
    /\ UNCHANGED <<lastrowid, Tasks, worker, del, crt, poll, nreq>>

\* lines 719-723: UPDATE Events SET ... WHERE event_id = %s, commit
update_event_write(u) ==
    /\ upd[u].pc = "validated"
    /\ Events' = [id \in DOMAIN Events |->
                     IF id = upd[u].event_id
                     THEN UpdatedRow(Events[id], upd[u].update) ELSE Events[id]]
    /\ upd' = [upd EXCEPT ![u] = [IdleUpdate EXCEPT !.pc = "written",
                                                    !.event_id = upd[u].event_id,
                                                    !.if_match = upd[u].if_match,
                                                    !.update = upd[u].update]]
    /\ UNCHANGED <<lastrowid, Tasks, worker, del, crt, poll, resp, nreq>>

\* update_event_readback that puts a row it cannot read back into the table
\* again (a compensating write) and answers NotFound
update_event_readback_Restores(u) ==
    /\ upd[u].pc = "written"
    /\ LET id == upd[u].event_id
           updated_event == SelectEvent(id)
       IN  IF IsSet(updated_event)
           THEN /\ resp' = UpdateResponse(upd[u], "OK", TRUE,
                                          Some(UpdatedETag(Val(updated_event))))
                /\ UNCHANGED Events
           ELSE /\ resp' = UpdateResponse(upd[u], "NotFound", TRUE, None)
                /\ Events' = Events @@
                       (id :> InsertedRow(id, [title |-> "b", start_time |-> 0,
                                               end_time |-> 1], 1))
    /\ upd' = [upd EXCEPT ![u] = IdleUpdate]
    /\ UNCHANGED <<lastrowid, Tasks, worker, del, crt, poll, nreq>>

\* lines 725-758: read the row back, build the response and its ETag
update_event_readback(u) ==
    /\ upd[u].pc = "written"
    /\ LET updated_event == SelectEvent(upd[u].event_id)
       IN  resp' = IF IsSet(updated_event)
                   THEN UpdateResponse(upd[u], "OK", TRUE,
                                       Some(UpdatedETag(Val(updated_event))))
                   ELSE UpdateResponse(upd[u], "Internal", TRUE, None)
    /\ upd' = [upd EXCEPT ![u] = IdleUpdate]
    /\ UNCHANGED <<Events, lastrowid, Tasks, worker, del, crt, poll, nreq>>

\* ----------------------------------------------------------- delete_event
DeleteResponse(req, outcome, wrote) ==
    [op |-> "delete_event", event_id |-> req.event_id, created_by |-> req.created_by,
     existing |-> req.existing, outcome |-> outcome, wrote |-> wrote]

\* lines 781-792: the row must exist and be the caller's
DeleteAuthorised(event, created_by) ==
    IF ~IsSet(event) THEN "NotFound"
    ELSE IF Val(event).created_by # created_by THEN "Forbidden"
    ELSE "none"

\* lines 772-792: read created_by, 404, 403
delete_event_read(event_id, created_by) ==
    /\ del.pc = "idle"
    /\ Accept
    /\ LET event == SelectEvent(event_id)
           req == [pc |-> "read", event_id |-> event_id, created_by |-> created_by,
                   existing |-> event]
           out == DeleteAuthorised(event, created_by)
       IN  IF out = "none"
           THEN del' = req /\ UNCHANGED resp
           ELSE resp' = DeleteResponse(req, out, FALSE) /\ UNCHANGED del
    /\ UNCHANGED <<Events, lastrowid, Tasks, worker, upd, crt, poll>>

\* delete_event_delete as a soft delete: the row stays in the table
delete_event_delete_KeepsRow ==
    /\ del.pc = "read"
    /\ resp' = DeleteResponse(del, "OK", TRUE)
    /\ del' = IdleDelete
    /\ UNCHANGED <<Events, lastrowid, Tasks, worker, upd, crt, poll, nreq>>

\* lines 794-799: DELETE FROM Events WHERE event_id = %s, commit
delete_event_delete ==
    /\ del.pc = "read"
    /\ Events' = [id \in DOMAIN Events \ {del.event_id} |-> Events[id]]
    /\ resp' = DeleteResponse(del, "OK", TRUE)
    /\ del' = IdleDelete
    /\ UNCHANGED <<lastrowid, Tasks, worker, upd, crt, poll, nreq>>

\* ----------------------------------------------------- create_event_async
\* lines 451-457: event.dict() with the datetimes as ISO strings
RequestData(event) ==
    [title |-> event.title, start_time |-> <<"iso", event.start_time>>,
     end_time |-> <<"iso", event.end_time>>, created_by |-> event.created_by]

\* PendingTask whose INSERT leaves request_data out of the column list
PendingTask_NoPayload(event) ==
    [task_type |-> "create_event", status |-> "pending",
     request_data |-> None, result_data |-> None,
     error_message |-> None, started_at |-> FALSE, completed_at |-> FALSE,
     created_by |-> event.created_by]

\* lines 463-472: INSERT INTO Tasks (task_id, task_type, status, request_data, created_by)
PendingTask(event) ==
    [task_type |-> "create_event", status |-> "pending",
     request_data |-> Some(RequestData(event)), result_data |-> None,
     error_message |-> None, started_at |-> FALSE, completed_at |-> FALSE,
     created_by |-> event.created_by]

\* lines 483-490: threading.Thread(target=process_event_async, args=...).start()
StartedThread(event) ==
    [pc |-> "start", event_data |-> event, user_id |-> event.created_by,
     event_id |-> 0, created_event |-> None]

SubmitResponse(task_id, outcome) ==
    [op |-> "create_event_async", task_id |-> task_id, outcome |-> outcome]

\* line 449: uuid.uuid4(), an id no task has
uuid4 == CHOOSE t \in TaskIds : t \notin DOMAIN Tasks /\ \A s \in 1..(t - 1) : s \in DOMAIN Tasks

\* create_event_async with the INSERT and the thread start moved above the
\* validation of lines 442-446
create_event_async_InsertFirst(event, store_ok) ==
    /\ Accept
    /\ DOMAIN Tasks # TaskIds
    /\ Tasks' = Tasks @@ (uuid4 :> PendingTask(event))
    /\ worker' = worker @@ (uuid4 :> StartedThread(event))
    /\ resp' = IF event.end_time <= event.start_time
                THEN SubmitResponse(0, "InvalidInput")
                ELSE SubmitResponse(uuid4, "Accepted")
    /\ UNCHANGED <<Events, lastrowid, upd, del, crt, poll>>

\* lines 440-502; store_ok = FALSE is the INSERT or its commit raising
\* (rollback, 500)
create_event_async(event, store_ok) ==
    /\ Accept
    /\ DOMAIN Tasks # TaskIds
    /\ IF event.end_time <= event.start_time
       THEN /\ resp' = SubmitResponse(0, "InvalidInput")
            /\ UNCHANGED <<Tasks, worker>>
       ELSE IF ~store_ok
       THEN /\ resp' = SubmitResponse(0, "Internal")
            /\ UNCHANGED <<Tasks, worker>>
       ELSE /\ Tasks' = Tasks @@ (uuid4 :> PendingTask(event))
            /\ worker' = worker @@ (uuid4 :> StartedThread(event))
            /\ resp' = SubmitResponse(uuid4, "Accepted")
    /\ UNCHANGED <<Events, lastrowid, upd, del, crt, poll>>

\* ---------------------------------------------------- process_event_async
\* UpdateTask without the WHERE clause: every row is set
UpdateTask_AllRows(task_id, row) == [t \in DOMAIN Tasks |-> row]

\* UPDATE Tasks SET ... WHERE task_id = %s
UpdateTask(task_id, row) ==
    [t \in DOMAIN Tasks |-> IF t = task_id THEN row ELSE Tasks[t]]

\* an exception in the try block: control moves to the except clause
Raise(task_id) == [worker EXCEPT ![task_id].pc = "except"]

\* ProcessingRow whose UPDATE changes nothing (the transition is not stored)
ProcessingRow_NotStored(task) == task

\* lines 96-100: SET status = 'processing', started_at = NOW()
ProcessingRow(task) == [task EXCEPT !.status = "processing", !.started_at = TRUE]

\* lines 92-101: connect, UPDATE Tasks, commit
process_set_processing(task_id, ok) ==
    /\ task_id \in DOMAIN worker
    /\ worker[task_id].pc = "start"
    /\ IF ok
       THEN /\ Tasks' = UpdateTask(task_id, ProcessingRow(Tasks[task_id]))
            /\ worker' = [worker EXCEPT ![task_id].pc = "processing"]
       ELSE /\ worker' = Raise(task_id)
            /\ UNCHANGED Tasks
    /\ UNCHANGED <<Events, lastrowid, upd, del, crt, poll, resp, nreq>>

\* lines 104-123: sleep, INSERT INTO Events, commit, lastrowid
process_insert_event(task_id, ok) ==
    /\ task_id \in DOMAIN worker
    /\ worker[task_id].pc = "processing"
    /\ IF ok
       THEN /\ lastrowid < MaxEvents
            /\ lastrowid' = lastrowid + 1
            /\ Events' = Events @@
                   (lastrowid' :> InsertedRow(lastrowid', worker[task_id].event_data,
                                              worker[task_id].user_id))
            /\ worker' = [worker EXCEPT ![task_id].pc = "inserted",
                                        ![task_id].event_id = lastrowid']
       ELSE /\ worker' = Raise(task_id)
            /\ UNCHANGED <<Events, lastrowid>>
    /\ UNCHANGED <<Tasks, upd, del, crt, poll, resp, nreq>>

\* lines 125-134: SELECT the created row; lines 137, 164-165: when the row
\* is not there the function closes the connection and returns
process_fetch_created(task_id, ok) ==
    /\ task_id \in DOMAIN worker
    /\ worker[task_id].pc = "inserted"
    /\ LET created_event == SelectEvent(worker[task_id].event_id)
       IN  worker' = IF ~ok THEN Raise(task_id)
                     ELSE [worker EXCEPT
                              ![task_id].pc = IF IsSet(created_event)
                                              THEN "fetched" ELSE "done",
                              ![task_id].created_event = created_event]
    /\ UNCHANGED <<Events, lastrowid, Tasks, upd, del, crt, poll, resp, nreq>>

\* CompletedRow that leaves result_data out of the SET list
CompletedRow_NoResult(task, event_dict) ==
    [task EXCEPT !.status = "completed", !.completed_at = TRUE]

\* lines 155-161: SET status = 'completed', completed_at = NOW(), result_data
CompletedRow(task, event_dict) ==
    [task EXCEPT !.status = "completed", !.completed_at = TRUE,
                 !.result_data = Some(event_dict)]

\* process_set_completed that enters the except clause after its UPDATE
\* has committed
process_set_completed_ThenRaises(task_id, ok) ==
    /\ task_id \in DOMAIN worker
    /\ worker[task_id].pc = "fetched"
    /\ Tasks' = UpdateTask(task_id,
           CompletedRow(Tasks[task_id], Normalise(Val(worker[task_id].created_event))))
    /\ worker' = Raise(task_id)
    /\ UNCHANGED <<Events, lastrowid, upd, del, crt, poll, resp, nreq>>

\* lines 137-165: event_dict, UPDATE Tasks, commit, close
process_set_completed(task_id, ok) ==
    /\ task_id \in DOMAIN worker
    /\ worker[task_id].pc = "fetched"
    /\ IF ok
       THEN /\ Tasks' = UpdateTask(task_id,
                   CompletedRow(Tasks[task_id],
                                Normalise(Val(worker[task_id].created_event))))
            /\ worker' = [worker EXCEPT ![task_id].pc = "done"]
       ELSE /\ worker' = Raise(task_id)
            /\ UNCHANGED Tasks
    /\ UNCHANGED <<Events, lastrowid, upd, del, crt, poll, resp, nreq>>

\* FailedRow that puts the task back to 'pending' with the error recorded
FailedRow_Requeue(task, error_msg) ==
    [task EXCEPT !.status = "pending", !.error_message = Some(error_msg)]

\* lines 172-178: SET status = 'failed', completed_at = NOW(), error_message
FailedRow(task, error_msg) ==
    [task EXCEPT !.status = "failed", !.completed_at = TRUE,
                 !.error_message = Some(error_msg)]

\* process_set_failed that records the error and runs the try block again
process_set_failed_Retry(task_id, ok) ==
    /\ task_id \in DOMAIN worker
    /\ worker[task_id].pc = "except"
    /\ Tasks' = UpdateTask(task_id, FailedRow(Tasks[task_id], "error"))
    /\ worker' = [worker EXCEPT ![task_id].pc = "processing"]
    /\ UNCHANGED <<Events, lastrowid, upd, del, crt, poll, resp, nreq>>

\* lines 166-183: the except clause: UPDATE Tasks on a new connection; when
\* that raises too the error is printed and the thread ends
process_set_failed(task_id, ok) ==
    /\ task_id \in DOMAIN worker
    /\ worker[task_id].pc = "except"
    /\ IF ok
       THEN Tasks' = UpdateTask(task_id, FailedRow(Tasks[task_id], "error"))
       ELSE UNCHANGED Tasks
    /\ worker' = [worker EXCEPT ![task_id].pc = "done"]
    /\ UNCHANGED <<Events, lastrowid, upd, del, crt, poll, resp, nreq>>

\* the positions of a thread that is still running
Running == {"start", "processing", "inserted", "fetched", "except"}

\* process_crash whose thread marks its task failed on the way out
process_crash_MarksFailed(task_id) ==
    /\ task_id \in DOMAIN worker
    /\ worker[task_id].pc \in Running
    /\ Tasks' = UpdateTask(task_id, FailedRow(Tasks[task_id], "error"))
    /\ worker' = [worker EXCEPT ![task_id].pc = "crashed",
                                ![task_id].created_event = None]
    /\ UNCHANGED <<Events, lastrowid, upd, del, crt, poll, resp, nreq>>

\* line 488, thread.daemon = True: the thread is killed where it stands when
\* the process stops; no except clause runs and what it committed stays
process_crash(task_id) ==
    /\ task_id \in DOMAIN worker
    /\ worker[task_id].pc \in Running
    /\ worker' = [worker EXCEPT ![task_id].pc = "crashed",
                                ![task_id].created_event = None]
    /\ UNCHANGED <<Events, lastrowid, Tasks, upd, del, crt, poll, resp, nreq>>

\* -------------------------------------------------------- get_task_status
\* lines 506-517: the request arrives and opens its connection; `known`
\* records whether a submit had returned this task_id by then, `after`
\* whether the processing transition was committed by then
get_task_status_begin(task_id) ==
    /\ poll.pc = "idle"
    /\ Accept
    /\ poll' = [pc |-> "begun", task_id |-> task_id,
                known |-> task_id \in DOMAIN worker,
                after |-> task_id \in DOMAIN Tasks /\ Tasks[task_id].started_at]
    /\ UNCHANGED <<Events, lastrowid, Tasks, worker, upd, del, crt, resp>>

\* SELECT ... FROM Tasks WHERE task_id = %s, fetchone()
SelectTask(task_id) ==
    IF task_id \in DOMAIN Tasks THEN Some(Tasks[task_id]) ELSE None

\* StatusResponse without the 404 of lines 527-528: a missing row is
\* answered like the 202 of the submit, 'pending'
StatusResponse_No404(req, task) ==
    [op |-> "get_task_status", task_id |-> req.task_id, known |-> req.known,
     after |-> req.after,
     outcome |-> "OK",
     status |-> IF IsSet(task) THEN Val(task).status ELSE "pending"]

\* lines 527-538: 404 when there is no row, else the row's status
StatusResponse(req, task) ==
    [op |-> "get_task_status", task_id |-> req.task_id, known |-> req.known,
     after |-> req.after,
     outcome |-> IF IsSet(task) THEN "OK" ELSE "NotFound",
     status |-> IF IsSet(task) THEN Val(task).status ELSE "none"]

\* lines 518-591: SELECT the task, build the response
get_task_status_select ==
    /\ poll.pc = "begun"
    /\ resp' = StatusResponse(poll, SelectTask(poll.task_id))
    /\ poll' = IdlePoll
    /\ UNCHANGED <<Events, lastrowid, Tasks, worker, upd, del, crt, nreq>>

\* ---------------------------------------------------------- specification
UpdateRequests ==
    /\ nreq < MaxRequests
    /\ upd[FreeUpdater].pc = "idle"
    /\ \E event_id \in EventIds, update \in EventUpdate, created_by \in Users :
           \E if_match \in IfMatchHeaders(event_id) :
               update_event_read(event_id, update, created_by, if_match)

DeleteRequests ==
    /\ nreq < MaxRequests
    /\ \E event_id \in EventIds, created_by \in Users :
           delete_event_read(event_id, created_by)

CreateRequests ==
    /\ nreq < MaxRequests
    /\ \E event \in EventCreate : create_event_insert(event)

GetRequests ==
    /\ nreq < MaxRequests
    /\ \E event_id \in EventIds :
           \E if_none_match \in IfNoneMatchHeaders(event_id) :
               get_event(event_id, if_none_match)

ListRequests ==
    /\ nreq < MaxRequests
    /\ \E skip \in 0..MaxSkip, limit \in 1..Min(MaxLimit, 100) : get_events(skip, limit)

SubmitRequests ==
    /\ nreq < MaxRequests
    /\ \E event \in EventCreate, store_ok \in BOOLEAN : create_event_async(event, store_ok)

Executor ==
    \E task_id \in TaskIds, ok \in BOOLEAN :
        \/ process_crash(task_id)
        \/ process_set_processing(task_id, ok)
        \/ process_insert_event(task_id, ok)
        \/ process_fetch_created(task_id, ok)
        \/ process_set_completed(task_id, ok)
        \/ process_set_failed(task_id, ok)

Next ==
    \/ ListRequests
    \/ GetRequests
    \/ CreateRequests
    \/ create_event_readback
    \/ UpdateRequests
    \/ \E u \in Updaters : update_event_validate(u)
    \/ \E u \in Updaters : update_event_write(u)
    \/ \E u \in Updaters : update_event_readback(u)
    \/ DeleteRequests
    \/ delete_event_delete
    \/ SubmitRequests
    \/ Executor
    \/ \E task_id \in TaskIds : get_task_status_begin(task_id)
    \/ get_task_status_select

Spec == Init /\ [][Next]_vars

\* The handlers of the Events table alone
NextEvents ==
    \/ GetRequests
    \/ CreateRequests
    \/ create_event_readback
    \/ UpdateRequests
    \/ \E u \in Updaters : update_event_validate(u)
    \/ \E u \in Updaters : update_event_write(u)
    \/ \E u \in Updaters : update_event_readback(u)
    \/ DeleteRequests
    \/ delete_event_delete

SpecEvents == Init /\ [][NextEvents]_vars

\* The task ledger, its executor, the poll, and the delete an executor can
\* race with
NextTasks ==
    \/ SubmitRequests
    \/ Executor
    \/ \E task_id \in TaskIds : get_task_status_begin(task_id)
    \/ get_task_status_select
    \/ DeleteRequests
    \/ delete_event_delete

SpecTasks == Init /\ [][NextTasks]_vars

\* The foreground requests on events together with submit (the threads a
\* submit starts are not scheduled)
NextForeground ==
    \/ NextEvents
    \/ SubmitRequests

SpecForeground == Init /\ [][NextForeground]_vars

\* The two ways an Event row is created: create_event, and a submit with
\* its executor
NextCreates ==
    \/ CreateRequests
    \/ create_event_readback
    \/ SubmitRequests
    \/ Executor

SpecCreates == Init /\ [][NextCreates]_vars

\* List requests over a table that holds 0..MaxRows events of one creator
InitList ==
    /\ \E n \in 0..MaxRows :
           /\ Events = [id \in 1..n |->
                  InsertedRow(id, [title |-> "a", start_time |-> 0, end_time |-> 1], 1)]
           /\ lastrowid = n
    /\ Tasks = <<>>
    /\ worker = <<>>
    /\ upd = [u \in Updaters |-> IdleUpdate]
    /\ del = IdleDelete
    /\ crt = IdleCreate
    /\ poll = IdlePoll
    /\ resp = [op |-> "none"]
    /\ nreq = 0

NextList == ListRequests

SpecList == InitList /\ [][NextList]_vars

\* ================================================================ claims
Terminal == {"completed", "failed"}

\* C1: the status of a task only ever moves pending -> processing ->
\* completed or pending -> processing -> failed: a step that changes the
\* status of a task is one of these three transitions.
C1_StatusPrefix ==
    [][\A t \in DOMAIN Tasks :
          \/ Tasks'[t].status = Tasks[t].status
          \/ <<Tasks[t].status, Tasks'[t].status>> \in
                 {<<"pending", "processing">>, <<"processing", "completed">>,
                  <<"processing", "failed">>}]_vars

\* the (non-empty) validator sent with an update differs from the
\* fingerprint update_event computes over the row it read
ValidatorDiffers(if_match, existing) ==
    /\ IsSet(existing)
    /\ IsSet(if_match) /\ Val(if_match) # EmptyHeader
    /\ Val(if_match)[2] # Some(ExistingETag(Val(existing)))

CallerIsCreator(created_by, existing) ==
    IsSet(existing) /\ Val(existing).created_by = created_by

\* C2 as stated: every update of an existing event whose validator differs
\* from the fingerprint of the row ends in PreconditionFailed without a write.
C2_MismatchIs412 ==
    /\ \A u \in Updaters :
           upd[u].pc = "read" => ~ValidatorDiffers(upd[u].if_match, upd[u].existing)
    /\ (resp.op = "update_event" /\ ValidatorDiffers(resp.if_match, resp.existing))
           => (resp.outcome = "PreconditionFailed" /\ ~resp.wrote)

\* C2 amended: an update by the event's creator whose validator differs
\* from the fingerprint update_event computes over the row it read ends in
\* PreconditionFailed and never reaches the write.
C2_CreatorMismatchIs412 ==
    /\ \A u \in Updaters :
           upd[u].pc = "read" => ~ValidatorDiffers(upd[u].if_match, upd[u].existing)
    /\ (/\ resp.op = "update_event"
        /\ CallerIsCreator(resp.created_by, resp.existing)
        /\ ValidatorDiffers(resp.if_match, resp.existing))
           => (resp.outcome = "PreconditionFailed" /\ ~resp.wrote)

C2_Witness ==
    /\ resp.op = "update_event"
    /\ resp.outcome = "PreconditionFailed"
    /\ CallerIsCreator(resp.created_by, resp.existing)
    /\ ValidatorDiffers(resp.if_match, resp.existing)
    /\ resp.event_id \in DOMAIN Events

C5_DoneIsTerminal ==
    \A t \in DOMAIN worker : worker[t].pc = "done" => Tasks[t].status \in Terminal

BoundaryConflict(d, fresh) ==
    /\ IsSet(fresh)
    /\ \/ /\ "end_time" \in DOMAIN d /\ "start_time" \notin DOMAIN d
          /\ d.end_time <= Val(fresh).start_time[2]
       \/ /\ "start_time" \in DOMAIN d /\ "end_time" \notin DOMAIN d
          /\ d.start_time >= Val(fresh).end_time[2]

C8_ProcessingBeforeInsert ==
    \A t \in DOMAIN worker :
        (worker[t].event_id # 0 /\ worker[t].event_id \in DOMAIN Events)
            => Tasks[t].status \in {"processing", "completed", "failed"}

C8_Witness ==
    \E t \in DOMAIN worker :
        /\ worker[t].event_id \in DOMAIN Events
        /\ worker[t].pc = "inserted"
        /\ Tasks[t].status = "processing"

\* C9: a poll that began after the processing transition of its task was
\* committed answers processing, completed or failed.
C9_PollAfterProcessing ==
    (resp.op = "get_task_status" /\ resp.after)
        => (resp.outcome = "OK" /\ resp.status \in {"processing", "completed", "failed"})

C9_Witness ==
    /\ resp.op = "get_task_status"
    /\ resp.after
    /\ resp.status = "processing"
    /\ Tasks[resp.task_id].status = "failed"

\* C10: a poll of a task_id no submit has returned answers NotFound.
C10_UnknownTaskNotFound ==
    (resp.op = "get_task_status" /\ resp.task_id \notin DOMAIN worker)
        => resp.outcome = "NotFound"

C10_Witness ==
    /\ resp.op = "get_task_status"
    /\ resp.outcome = "NotFound"
    /\ resp.task_id \notin DOMAIN worker
    /\ \E t \in DOMAIN Tasks : Tasks[t].status = "processing"

\* C11: every task_id a submit has returned, and every task_id an executor
\* was started for, has its row in Tasks with the request payload of that
\* submit; a poll that began after the submit returned never answers
\* NotFound.
C11_SubmittedIsPersisted ==
    /\ \A t \in DOMAIN worker :
           /\ t \in DOMAIN Tasks
           /\ Tasks[t].request_data = Some(RequestData(worker[t].event_data))
    /\ (resp.op = "create_event_async" /\ resp.outcome = "Accepted")
           => resp.task_id \in DOMAIN Tasks
    /\ (poll.pc = "begun" /\ poll.known) => poll.task_id \in DOMAIN Tasks
    /\ (resp.op = "get_task_status" /\ resp.known) => resp.outcome = "OK"

C11_Witness ==
    /\ resp.op = "get_task_status"
    /\ resp.known
    /\ resp.outcome = "OK"
    /\ resp.status = "pending"
    /\ worker[resp.task_id].pc = "start"

InputErrors == {"InvalidInput", "Forbidden", "NotFound", "PreconditionFailed"}

\* requests accepted and not yet answered
InFlight ==
    Cardinality({u \in Updaters : upd[u].pc # "idle"})
        + (IF del.pc # "idle" THEN 1 ELSE 0) + (IF crt.pc # "idle" THEN 1 ELSE 0)
        + (IF poll.pc # "idle" THEN 1 ELSE 0)

\* requests answered so far
Returned == nreq - InFlight

\* C12: the step in which an update, delete, create or submit answers
\* InvalidInput, Forbidden, NotFound or PreconditionFailed leaves Events and
\* Tasks as they were and starts no worker, and a request that has issued
\* its mutating statement is never answered with one of these errors.
C12_ErrorsBeforeWrites ==
    [][/\ (/\ Returned' = Returned + 1
           /\ resp'.op \in {"create_event", "create_event_async",
                            "update_event", "delete_event"}
           /\ resp'.outcome \in InputErrors)
              => UNCHANGED <<Events, lastrowid, Tasks, worker>>
       /\ \A u \in Updaters :
              (upd[u].pc = "written" /\ upd'[u].pc # "written")
                  => resp'.outcome \notin InputErrors
       /\ (crt.pc = "inserted" /\ crt'.pc # "inserted")
              => resp'.outcome \notin InputErrors]_vars

C12_Witness ==
    /\ resp.op = "create_event_async"
    /\ resp.outcome = "InvalidInput"
    /\ DOMAIN Tasks = {}
    /\ DOMAIN worker = {}
    /\ \E u \in Updaters : upd[u].pc = "written" /\ upd[u].event_id \in DOMAIN Events

\* C13: an update by the creator whose If-Match is the validator get_event
\* publishes for the row the update reads (no write since the get) is not
\* answered PreconditionFailed.
C13_GetValidatorPasses ==
    (/\ resp.op = "update_event"
     /\ CallerIsCreator(resp.created_by, resp.existing)
     /\ resp.if_match = Some(Quoted(GetETag(Val(resp.existing)))))
        => resp.outcome # "PreconditionFailed"

\* C14: a step that changes the row of a task is a step of the worker
\* started for that task and changes no other row; a step that adds a task
\* adds one row under an unused task_id together with its one worker; rows
\* and workers are never removed, and there is one worker per task.
C14_OneWriterPerTask ==
    [][/\ \A t \in DOMAIN Tasks :
              /\ t \in DOMAIN Tasks'
              /\ Tasks'[t] # Tasks[t] =>
                     /\ worker[t].pc \notin {"done", "crashed"}
                     /\ worker'[t] # worker[t]
                     /\ \A s \in DOMAIN Tasks \ {t} :
                            Tasks'[s] = Tasks[s] /\ worker'[s] = worker[s]
       /\ DOMAIN worker = DOMAIN Tasks /\ DOMAIN worker' = DOMAIN Tasks'
       /\ Cardinality(DOMAIN Tasks' \ DOMAIN Tasks) <= 1
       /\ DOMAIN Tasks' # DOMAIN Tasks =>
              /\ resp'.op = "create_event_async" /\ resp'.outcome = "Accepted"
              /\ DOMAIN Tasks' \ DOMAIN Tasks = {resp'.task_id}
              /\ Tasks'[resp'.task_id].status = "pending"]_vars

C14_Witness ==
    /\ DOMAIN Tasks = {1, 2}
    /\ Tasks[1].status = "completed"
    /\ Tasks[2].status = "pending"
    /\ worker[1].pc = "done"
    /\ worker[2].pc = "start"

C16_PaginationLinks ==
    resp.op = "get_events" =>
        /\ resp.skip >= 0 /\ resp.limit >= 1 /\ resp.limit <= 100 /\ resp.total >= 0
        /\ resp.has_more <=> (resp.skip + resp.limit < resp.total)
        /\ IsSet(resp.links.next) <=> resp.has_more
        /\ resp.has_more => Val(resp.links.next) = resp.skip + resp.limit
        /\ IsSet(resp.links.prev) <=> resp.skip > 0
        /\ resp.skip > 0 =>
               Val(resp.links.prev) =
                   IF resp.skip > resp.limit THEN resp.skip - resp.limit ELSE 0
        /\ (resp.total = 25 /\ resp.skip = 0 /\ resp.limit = 10) =>
               resp.has_more /\ resp.links.next = Some(10)
        /\ (resp.total = 25 /\ resp.skip = 20 /\ resp.limit = 10) =>
               ~resp.has_more /\ resp.links.prev = Some(10) /\ resp.links.next = None

C16_Witness ==
    /\ resp.op = "get_events"
    /\ resp.total = 25 /\ resp.skip = 20 /\ resp.limit = 10
    /\ ~resp.has_more
    /\ resp.links.prev = Some(10)
    /\ resp.links.next = None
    /\ resp.items = 5

C18_ConditionalGet ==
    [][(resp'.op = "get_event" /\ Returned' = Returned + 1 /\ InFlight' = InFlight) =>
          /\ UNCHANGED <<Events, lastrowid, Tasks, worker>>
          /\ LET row == SelectEvent(resp'.event_id)
                 h == resp'.if_none_match
             IN  IF ~IsSet(row) THEN resp'.outcome = "NotFound"
                 ELSE IF /\ IsSet(h) /\ Val(h) # EmptyHeader
                         /\ Val(h)[2] = Some(GetETag(Val(row)))
                 THEN resp'.outcome = "NotModified" /\ resp'.body = None
                 ELSE /\ resp'.outcome = "OK"
                      /\ resp'.body =
                             Some(WithLinks(Normalise(WithInterests(Val(row)))))]_vars

C18_Witness ==
    /\ resp.op = "get_event"
    /\ resp.outcome = "NotModified"
    /\ resp.body = None
    /\ resp.event_id \in DOMAIN Events
    /\ Events[resp.event_id].title = "b"
    /\ resp.if_none_match = Some(Quoted(GetETag(Val(SelectEvent(resp.event_id)))))

\* the validator an update in flight carried no longer matches the row
StaleValidator(req) ==
    /\ req.event_id \in DOMAIN Events
    /\ UpdatePrecondition(SelectEvent(req.event_id), req.if_match) = "PreconditionFailed"

\* C19: the write of an update is a step of its own after the revalidation
\* and does not look at the validator again: an update that passed the
\* guards issues its UPDATE on the row as it is then, whatever another
\* update has written since, and is not answered PreconditionFailed.  (The
\* interleaving the claim names is the state of C19_Witness.)
C19_WriteNotRevalidated ==
    [][\A u \in Updaters :
          (upd[u].pc = "validated" /\ upd'[u] # upd[u]) =>
              /\ upd'[u].pc = "written"
              /\ resp' = resp
              /\ Events' = [id \in DOMAIN Events |->
                                IF id = upd[u].event_id
                                THEN UpdatedRow(Events[id], upd[u].update)
                                ELSE Events[id]]]_vars

\* two updates of one event with the same validator, which matched when
\* each was revalidated, have both written; the second write replaced the
\* end_time the first had set
C19_Witness ==
    /\ upd[1].pc = "written" /\ upd[2].pc = "written"
    /\ upd[1].event_id = upd[2].event_id
    /\ Truthy(upd[1].if_match)
    /\ upd[1].if_match = upd[2].if_match
    /\ StaleValidator(upd[1])
    /\ "end_time" \in DOMAIN upd[1].update /\ "end_time" \in DOMAIN upd[2].update
    /\ upd[1].update.end_time # upd[2].update.end_time
    /\ Events[upd[1].event_id].end_time = upd[2].update.end_time

\* a worker that was killed after its INSERT INTO Events had committed
CrashedAfterInsert(w) == w.pc = "crashed" /\ w.event_id # 0

\* C20: the crash of a worker changes neither Events nor Tasks (the Event
\* it has committed stays); the task of a worker that crashed after its
\* Event insert committed and before a terminal write is in processing in
\* every later state; and the Event row of such a worker leaves the table
\* only by the DELETE of a delete_event for that id.
C20_CrashLeavesProcessing ==
    [][\A t \in DOMAIN worker :
          /\ (worker[t].pc # "crashed" /\ worker'[t].pc = "crashed")
                 => UNCHANGED <<Events, Tasks>>
          /\ CrashedAfterInsert(worker'[t])
                 => (Tasks'[t].status = "processing" /\ ~IsSet(Tasks'[t].result_data))
          /\ CrashedAfterInsert(worker[t])
                 => /\ worker'[t] = worker[t]
                    /\ Tasks'[t] = Tasks[t]
                    /\ (/\ worker[t].event_id \in DOMAIN Events
                        /\ worker[t].event_id \notin DOMAIN Events')
                           => (del.pc = "read" /\ del.event_id = worker[t].event_id)]_vars

C20_Witness ==
    \E t \in DOMAIN worker :
        /\ CrashedAfterInsert(worker[t])
        /\ worker[t].event_id \in DOMAIN Events
        /\ Tasks[t].status = "processing"
        /\ resp.op = "get_task_status" /\ resp.task_id = t /\ resp.status = "processing"
        /\ \E s \in DOMAIN worker : worker[s].pc = "done" /\ Tasks[s].status = "completed"

\* C21: an Event row is inserted by a worker that has inserted none before,
\* one row per step; a worker that has inserted keeps its event_id, a
\* thread that has ended or was killed never runs again, and the number of
\* rows inserted by workers never exceeds the number of accepted submits.
C21_OneInsertPerTask ==
    [][/\ lastrowid' # lastrowid =>
              /\ lastrowid' = lastrowid + 1
              /\ \E t \in DOMAIN worker :
                     /\ worker[t].pc = "processing" /\ worker[t].event_id = 0
                     /\ worker'[t].event_id = lastrowid'
                     /\ \A s \in DOMAIN worker \ {t} : worker'[s] = worker[s]
       /\ \A t \in DOMAIN worker :
              /\ worker[t].event_id # 0 => worker'[t].event_id = worker[t].event_id
              /\ worker[t].pc \in {"done", "crashed"} => worker'[t] = worker[t]
       /\ Cardinality({t \in DOMAIN worker' : worker'[t].event_id # 0}) = lastrowid'
       /\ lastrowid' <= Cardinality(DOMAIN Tasks')]_vars

C21_Witness ==
    /\ lastrowid = 1
    /\ DOMAIN Tasks = {1, 2}
    /\ \E t \in DOMAIN worker :
           /\ Tasks[t].status = "failed" /\ worker[t].pc = "done"
           /\ worker[t].event_id = 0
    /\ \E t \in DOMAIN worker :
           /\ Tasks[t].status = "completed" /\ worker[t].pc = "done"
           /\ worker[t].event_id = 1

\* C22: the worker of a failed task has committed no Event insert.
C22_FailedCreatedNoEvent ==
    \A t \in DOMAIN Tasks : Tasks[t].status = "failed" => worker[t].event_id = 0

\* C23: the read-back step of an update whose row is not in the table (a
\* delete_event removed it after the update was accepted) answers Internal
\* and changes neither Events nor Tasks; with the row there it answers OK.
\* Internal is answered by no other step of an update.
C23_ReadbackInternal ==
    [][/\ \A u \in Updaters :
              (upd[u].pc = "written" /\ upd'[u].pc # "written") =>
                  /\ UNCHANGED <<Events, lastrowid, Tasks, worker>>
                  /\ resp'.op = "update_event" /\ resp'.event_id = upd[u].event_id
                  /\ resp'.wrote
                  /\ resp'.outcome =
                         IF upd[u].event_id \in DOMAIN Events THEN "OK" ELSE "Internal"
       /\ (resp'.op = "update_event" /\ resp'.outcome = "Internal" /\ resp' # resp)
              => \E u \in Updaters : upd[u].pc = "written" /\ upd'[u].pc = "idle"]_vars

C23_Witness ==
    /\ resp.op = "update_event"
    /\ resp.outcome = "Internal"
    /\ resp.wrote
    /\ resp.event_id \notin DOMAIN Events
    /\ resp.event_id <= lastrowid
    /\ del.pc = "idle"
    /\ Events = <<>>

C25_SameValidatorAfterUpdate ==
    [][(/\ resp.op = "update_event" /\ resp.outcome = "OK"
        /\ resp.event_id \in DOMAIN Events
        /\ resp.etag = Some(UpdatedETag(Val(SelectEvent(resp.event_id))))
        /\ nreq' = nreq + 1
        /\ resp'.op = "get_event" /\ resp'.outcome \in {"OK", "NotModified"}
        /\ resp'.event_id = resp.event_id)
           => resp'.etag = resp.etag]_vars

EventRequests == {"get_event", "update_event", "delete_event"}

\* C26: the DELETE step of a delete_event answers OK and leaves no row
\* under its id; an id that has had a row and has none never gets one
\* again; and a get, update or delete accepted for an id without a row is
\* answered NotFound in that step, goes no further and changes neither
\* Events nor Tasks.
C26_DeletedIsNotFound ==
    [][/\ (del.pc = "read" /\ del'.pc # "read") =>
              /\ del.event_id \notin DOMAIN Events'
              /\ resp'.op = "delete_event" /\ resp'.outcome = "OK"
       /\ \A id \in 1..lastrowid : id \notin DOMAIN Events => id \notin DOMAIN Events'
       /\ \A u \in Updaters :
              (upd[u].pc = "idle" /\ upd'[u].pc # "idle")
                  => upd'[u].event_id \in DOMAIN Events
       /\ (del.pc = "idle" /\ del'.pc # "idle") => del'.event_id \in DOMAIN Events
       /\ (/\ nreq' = nreq + 1 /\ InFlight' = InFlight
           /\ resp'.op \in EventRequests
           /\ resp'.event_id \notin DOMAIN Events)
              => /\ resp'.outcome = "NotFound"
                 /\ UNCHANGED <<Events, lastrowid, Tasks, worker>>]_vars

C26_Witness ==
    /\ resp.op = "update_event"
    /\ resp.outcome = "NotFound"
    /\ resp.event_id <= lastrowid
    /\ resp.event_id \notin DOMAIN Events
    /\ resp.created_by = 1
    /\ del.pc = "idle"
    /\ \A u \in Updaters : upd[u].pc = "idle"

====
